---- MODULE Spec2Model ----
(***************************************************************************)
(* Model of directories.py: the script opens project_structure.txt for     *)
(* writing, walks the tree below "." top-down with os.walk, drops the      *)
(* excluded directory names from the pending list, and writes one indented *)
(* line per visited directory and one per file.                            *)
(*                                                                         *)
(* Paths and lines are sequences of tokens: a name, the separator "/" and  *)
(* the single space " " are tokens.  Every f.write call of the script      *)
(* emits one newline-terminated line, so the output is a sequence of lines.*)
(***************************************************************************)
EXTENDS Integers, Sequences, FiniteSets, TLC

\* Largest number of entries below the traversal root at invocation.
MaxNodes == 3

Root == 0
\* Node id of project_structure.txt once it exists in the traversal root.
OutNode == MaxNodes + 1
OutName == "project_structure.txt"
NoNode == 0 - 1

Sep == "/"
Dot == "."

\* The list literal of line 7.
Excluded == {"__pycache__", "migrations", "venv", "env", "static", "media"}

\* What an entry below the root can be: kind, name, and (directories) whether
\* its entries can be read.  "link" is a symbolic link to the directory that
\* contains it, that is, to one of its own ancestors.
Flavours ==
    { [kind |-> "dir",  name |-> "venv",    readable |-> TRUE],
      [kind |-> "dir",  name |-> "Venv",    readable |-> TRUE],
      [kind |-> "dir",  name |-> ".venv",   readable |-> TRUE],
      [kind |-> "dir",  name |-> "locked",  readable |-> FALSE],
      [kind |-> "file", name |-> "main.py", readable |-> TRUE],
      [kind |-> "file", name |-> "env",     readable |-> TRUE],
      [kind |-> "link", name |-> "loop",    readable |-> TRUE] }

\* The real name of the directory "." denotes.  The script never reads it; the
\* model gives it the name of an excluded directory.
CwdName == "venv"

VARIABLES
    fs,        \* the tree at invocation: node id -> [parent, kind, name, readable]
    order,     \* the order in which the filesystem lists entries (scandir order)
    outExists, \* project_structure.txt exists in the traversal root
    canOpen,   \* the output file can be opened for writing
    out,       \* content of project_structure.txt: a sequence of lines
    origin,    \* history: for each line of out, the entry it was written for
    handle,    \* "none" | "open" | "closed": the file object f
    opens,     \* history: number of calls of open in this run
    closes,    \* history: number of closes in this run
    pc,        \* "start" | "walk" | "body" | "files" | "done" | "failed"
    stack,     \* os.walk's pending paths, next one last
    root,      \* loop variable root (a path)
    dirs,      \* loop variable dirs (names)
    files,     \* loop variable files (names), the ones still to be written
    log,       \* history: the paths os.walk took in this run, in order, each
               \* with ok = TRUE (listed and yielded) or FALSE (scandir failed)
    run,       \* "first" | "second"
    prev,      \* history: content after the first run
    fresh      \* history: project_structure.txt did not exist before the first run

vars == <<fs, order, outExists, canOpen, out, origin, handle, opens, closes, pc,
          stack, root, dirs, files, log, run, prev, fresh>>

----------------------------------------------------------------------------
\* The filesystem

Nodes == DOMAIN fs

Parent(i) == IF i = OutNode THEN Root ELSE fs[i].parent
Kind(i) == IF i = OutNode THEN "file" ELSE fs[i].kind
Name(i) == IF i = OutNode THEN OutName ELSE fs[i].name
Readable(i) == IF i = OutNode THEN TRUE ELSE fs[i].readable

\* A symbolic link points to the directory that contains it.
Deref(i) == IF Kind(i) = "link" THEN Parent(i) ELSE i

\* Entries of directory d in listing order.
Listing(d) ==
    LET In(i) == Parent(i) = d /\ i # Root
    IN  SelectSeq(order, In)

RECURSIVE Depth(_)
Depth(i) == IF i = Root THEN 0 ELSE 1 + Depth(Parent(i))

RECURSIVE Ancestors(_)
\* Proper ancestors of entry i.
Ancestors(i) == IF i = Root THEN {} ELSE {Parent(i)} \cup Ancestors(Parent(i))

\* A choice c of parent and flavour for each of the entries 1..n makes a tree:
\* an entry lies in a real directory with a smaller id, and the names in one
\* directory differ.
WellFormed(c, n) ==
    \A i \in 1..n :
        /\ c[i].parent < i
        /\ IF c[i].parent = Root THEN TRUE ELSE c[c[i].parent].fl.kind = "dir"
        /\ \A j \in 1..(i - 1) :
              c[j].parent = c[i].parent => c[j].fl.name # c[i].fl.name

\* The tree built from the root's attributes and a choice c of parent and
\* flavour for each of the entries 1..n.
MkTree(n, cwd, rd, c) ==
    [i \in 0..n |->
        IF i = Root
        THEN [parent |-> NoNode, kind |-> "dir", name |-> cwd, readable |-> rd]
        ELSE [parent |-> c[i].parent, kind |-> c[i].fl.kind,
              name |-> c[i].fl.name, readable |-> c[i].fl.readable]]

\* The sequence <<1, ..., n>>.
Upto(n) == [i \in 1..n |-> i]

\* s with x inserted after its first p elements.
InsertAt(s, p, x) == SubSeq(s, 1, p) \o <<x>> \o SubSeq(s, p + 1, Len(s))

\* Places of the listing order where project_structure.txt can land: first, or
\* right after another file of the root.  (Its place among the directories of
\* the root is not told apart: scandir's listing is split into directories and
\* files, each kept in listing order.)
RootSlots(f, ord) ==
    {0} \cup {p \in 1..Len(ord) : f[ord[p]].parent = Root /\ f[ord[p]].kind = "file"}

----------------------------------------------------------------------------
\* Paths, as os.walk and os.path build them

\* os.path.join(top, name)
Join(top, name) == top \o <<Sep, name>>

\* str.count
Count(path, c) == Cardinality({k \in DOMAIN path : path[k] = c})

\* os.path.basename: what follows the last separator.
Basename(path) == IF path[Len(path)] = Sep THEN "" ELSE path[Len(path)]

Entries == {order[k] : k \in DOMAIN order}

RECURSIVE LookupFrom(_, _, _)
LookupFrom(cur, path, k) ==
    IF k > Len(path) THEN cur
    ELSE LookupFrom(CHOOSE i \in Entries : Parent(i) = Deref(cur) /\ Name(i) = path[k],
                    path, k + 2)

\* The entry a path of the walk names (lstat: a final link is not followed).
Lookup(path) == LookupFrom(Root, path, 3)

\* os.path.islink
IsLink(path) == Kind(Lookup(path)) = "link"

\* DirEntry.is_dir(): follows symbolic links.
IsDirEntry(i) == Kind(Deref(i)) = "dir"

IsFileEntry(i) == ~IsDirEntry(i)

\* os.scandir(path) fails when the directory's entries cannot be read.
CanScan(path) == Readable(Deref(Lookup(path)))

NamesOf(s) == [k \in DOMAIN s |-> Name(s[k])]

\* The dirs and nondirs lists os.walk builds from scandir(path).
ScanDirs(path) == NamesOf(SelectSeq(Listing(Deref(Lookup(path))), IsDirEntry))
ScanFiles(path) == NamesOf(SelectSeq(Listing(Deref(Lookup(path))), IsFileEntry))

Reverse(s) == [k \in 1..Len(s) |-> s[Len(s) + 1 - k]]

\* followlinks=True.
FollowLinksOn == TRUE
\* os.walk's followlinks parameter, left at its default.
FollowLinks == FALSE

\* An onerror that raises the error.
OnErrorRaise == "raise"
\* os.walk without onerror: an error of scandir is ignored.
OnError == "ignore"

\* As Descend, from the list scandir gave instead of the list the body left.
DescendRebound(top, ds) ==
    LET full == ScanDirs(top)
        paths == [k \in DOMAIN full |-> Join(top, full[k])]
        Walkable(p) == ~IsLink(p)
    IN  Reverse(SelectSeq(paths, Walkable))

\* What os.walk pushes when the loop body hands control back: the directories
\* left in dirs, last one first, links left out unless followlinks.
Descend(top, ds) ==
    LET paths == [k \in DOMAIN ds |-> Join(top, ds[k])]
        Walkable(p) == FollowLinks \/ ~IsLink(p)
    IN  Reverse(SelectSeq(paths, Walkable))

----------------------------------------------------------------------------
\* The loop body

\* dirs left as scandir gave it.
KeepAll(ds) == ds

\* str.lower on the names of the model.
Lower(d) == IF d = "Venv" THEN "venv" ELSE d

\* d.lower() not in [...]
FilterIgnoreCase(ds) ==
    LET Keep(d) == Lower(d) \notin Excluded
    IN  SelectSeq(ds, Keep)

\* Line 7: dirs[:] = [d for d in dirs if d not in [...]]
Filter(ds) ==
    LET Keep(d) == d \notin Excluded
    IN  SelectSeq(ds, Keep)

\* "  " * n
IndentUnit == <<" ", " ">>
RECURSIVE Repeat(_, _)
Repeat(s, n) == IF n = 0 THEN <<>> ELSE s \o Repeat(s, n - 1)

\* The level counted from 1.
LevelPlusOne(path) == Count(path, Sep) + 1
\* Line 8: level = root.count(os.sep)
Level(path) == Count(path, Sep)

\* Line 10: f"{indent}{os.path.basename(root)}/\n"
DirLine(path) == Repeat(IndentUnit, Level(path)) \o <<Basename(path), "/">>

\* A file's line with its directory's indent.
FileLineFlat(path, file) == Repeat(IndentUnit, Level(path)) \o <<file>>
\* Lines 11-13: f"{subindent}{file}\n"
FileLine(path, file) == Repeat(IndentUnit, Level(path) + 1) \o <<file>>

\* open(..., "a")
OpenAppend(content) == content
\* open(..., "w"): the content the file has right after the open.
OpenWrite(content) == <<>>

\* No with statement and no close.
ExitLeaveOpen(h) == h
\* The with statement's exit: the file object is closed.
ExitWith(h) == "closed"

----------------------------------------------------------------------------
Init ==
    /\ \E n \in 0..MaxNodes :
         \E c \in [1..n -> [parent : 0..(n - 1), fl : Flavours]] :
            /\ WellFormed(c, n)
            /\ \E rd \in BOOLEAN : fs = MkTree(n, CwdName, rd, c)
            /\ outExists \in BOOLEAN
            /\ \/ ~outExists /\ order = Upto(n)
               \/ outExists /\ \E p \in RootSlots(fs, Upto(n)) :
                                   order = InsertAt(Upto(n), p, OutNode)
    /\ canOpen \in BOOLEAN
    /\ out = IF outExists THEN << <<"stale">> >> ELSE <<>>
    /\ origin = IF outExists THEN << [node |-> NoNode, dir |-> FALSE] >> ELSE <<>>
    /\ handle = "none"
    /\ opens = 0
    /\ closes = 0
    /\ pc = "start"
    /\ stack = <<>>
    /\ root = <<>>
    /\ dirs = <<>>
    /\ files = <<>>
    /\ log = <<>>
    /\ run = "first"
    /\ prev = <<>>
    /\ fresh = ~outExists

\* Line 4, the open succeeds: the file is created or truncated; then line 5
\* creates the walk with "." pending.
Open ==
    /\ pc = "start"
    /\ canOpen
    /\ handle' = "open"
    /\ opens' = opens + 1
    /\ out' = OpenWrite(out)
    /\ origin' = IF out' = <<>> THEN <<>> ELSE origin
    /\ IF outExists
       THEN UNCHANGED order
       ELSE \E p \in RootSlots(fs, order) : order' = InsertAt(order, p, OutNode)
    /\ outExists' = TRUE
    /\ stack' = << <<Dot>> >>
    /\ pc' = "walk"
    /\ UNCHANGED <<fs, canOpen, closes, root, dirs, files, log, run, prev, fresh>>

\* Line 4, the open raises: nothing was opened, the script ends with the error.
OpenFail ==
    /\ pc = "start"
    /\ ~canOpen
    /\ opens' = opens + 1
    /\ pc' = "failed"
    /\ UNCHANGED <<fs, order, outExists, canOpen, out, origin, handle, closes,
                   stack, root, dirs, files, log, run, prev, fresh>>

\* os.walk takes the next pending path and its scandir fails.
WalkSkip ==
    /\ pc = "walk"
    /\ stack # <<>>
    /\ LET top == stack[Len(stack)] IN
        /\ ~CanScan(top)
        /\ log' = Append(log, [path |-> top, ok |-> FALSE])
        /\ stack' = SubSeq(stack, 1, Len(stack) - 1)
        /\ IF OnError = "ignore"
           THEN UNCHANGED <<pc, handle, closes>>
           ELSE /\ pc' = "failed"
                /\ handle' = ExitWith(handle)
                /\ closes' = IF handle' = "closed" THEN closes + 1 ELSE closes
    /\ UNCHANGED <<fs, order, outExists, canOpen, out, origin, opens, root, dirs,
                   files, run, prev, fresh>>

\* os.walk takes the next pending path, lists it and yields (root, dirs, files).
WalkYield ==
    /\ pc = "walk"
    /\ stack # <<>>
    /\ LET top == stack[Len(stack)] IN
        /\ CanScan(top)
        /\ root' = top
        /\ dirs' = ScanDirs(top)
        /\ files' = ScanFiles(top)
        /\ log' = Append(log, [path |-> top, ok |-> TRUE])
        /\ stack' = SubSeq(stack, 1, Len(stack) - 1)
    /\ pc' = "body"
    /\ UNCHANGED <<fs, order, outExists, canOpen, out, origin, handle, opens, closes,
                   run, prev, fresh>>

\* Lines 7-11: filter dirs in place, write the directory's line.
Body ==
    /\ pc = "body"
    /\ dirs' = Filter(dirs)
    /\ out' = Append(out, DirLine(root))
    /\ origin' = Append(origin, [node |-> Lookup(root), dir |-> TRUE])
    /\ pc' = "files"
    /\ UNCHANGED <<fs, order, outExists, canOpen, handle, opens, closes, stack, root,
                   files, log, run, prev, fresh>>

\* Lines 12-13, one turn of the file loop.
WriteFile ==
    /\ pc = "files"
    /\ files # <<>>
    /\ out' = Append(out, FileLine(root, Head(files)))
    /\ origin' = Append(origin, [node |-> Lookup(Join(root, Head(files))), dir |-> FALSE])
    /\ files' = Tail(files)
    /\ UNCHANGED <<fs, order, outExists, canOpen, handle, opens, closes, pc, stack, root,
                   dirs, log, run, prev, fresh>>

\* A write of line 10 or 13 raises (the device is full, a name cannot be
\* encoded): the with statement closes the file and the error ends the script.
WriteError ==
    /\ \/ pc = "body"
       \/ pc = "files" /\ files # <<>>
    /\ handle' = ExitWith(handle)
    /\ closes' = IF handle' = "closed" THEN closes + 1 ELSE closes
    /\ pc' = "failed"
    /\ UNCHANGED <<fs, order, outExists, canOpen, out, origin, opens, stack, root, dirs,
                   files, log, run, prev, fresh>>

\* The file loop is over: os.walk resumes and pushes the directories left in dirs.
Resume ==
    /\ pc = "files"
    /\ files = <<>>
    /\ stack' = stack \o Descend(root, dirs)
    /\ pc' = "walk"
    /\ UNCHANGED <<fs, order, outExists, canOpen, out, origin, handle, opens, closes,
                   root, dirs, files, log, run, prev, fresh>>

\* Nothing is pending: the for loop ends and the with statement closes the file.
Finish ==
    /\ pc = "walk"
    /\ stack = <<>>
    /\ handle' = ExitWith(handle)
    /\ closes' = IF handle' = "closed" THEN closes + 1 ELSE closes
    /\ pc' = "done"
    /\ UNCHANGED <<fs, order, outExists, canOpen, out, origin, opens, stack, root, dirs,
                   files, log, run, prev, fresh>>

\* The script is run again on the tree as the first run left it.
Rerun ==
    /\ pc = "done"
    /\ run = "first"
    /\ run' = "second"
    /\ prev' = out
    /\ handle' = "none"
    /\ opens' = 0
    /\ closes' = 0
    /\ pc' = "start"
    /\ root' = <<>>
    /\ dirs' = <<>>
    /\ files' = <<>>
    /\ log' = <<>>
    /\ UNCHANGED <<fs, order, outExists, canOpen, out, origin, stack, fresh>>

\* One step of a run of the script.
Step ==
    \/ Open
    \/ OpenFail
    \/ WalkSkip
    \/ WalkYield
    \/ Body
    \/ WriteFile
    \/ WriteError
    \/ Resume
    \/ Finish

Next == Step

\* One run of the script.
Spec == Init /\ [][Next]_vars

NextTwice ==
    \/ Step
    \/ Rerun

\* Two runs in a row.
TwoRuns == Init /\ [][NextTwice]_vars

----------------------------------------------------------------------------
\* Vocabulary of the properties

\* k spaces.
Spaces(k) == [j \in 1..k |-> " "]

\* Lines of the output written in this run for entry i.
LinesFor(i) == {k \in DOMAIN origin : origin[k].node = i}
DirLinesFor(i) == {k \in LinesFor(i) : origin[k].dir}
FileLinesFor(i) == {k \in LinesFor(i) : ~origin[k].dir}

\* Lines of this run (a line left by an earlier writer belongs to no entry).
RunLines == {k \in DOMAIN origin : origin[k].node # NoNode}

\* Entries the walk listed and yielded, and entries whose scandir failed.
VisitedAt(k) == log[k].ok
Visited == {Lookup(log[k].path) : k \in {j \in DOMAIN log : log[j].ok}}
Denied == {Lookup(log[k].path) : k \in {j \in DOMAIN log : ~log[j].ok}}
StackNodes == {Lookup(stack[k]) : k \in DOMAIN stack}

AllEntries == Entries \cup {Root}
RealDirs == {i \in AllEntries : Kind(i) = "dir"}
Links == {i \in AllEntries : Kind(i) = "link"}
PlainFiles == {i \in AllEntries : Kind(i) = "file"}

\* A directory other than the traversal root whose name is an excluded name.
ExcludedDir(d) == d # Root /\ Kind(d) = "dir" /\ Name(d) \in Excluded

\* i is d or lies beneath d.
Within(i, d) == i = d \/ d \in Ancestors(i)

\* The name a directory's line shows: the traversal root is ".".
ShownName(d) == IF d = Root THEN Dot ELSE Name(d)

\* Not excluded and not beneath an excluded directory.
Included(d) == \A a \in Ancestors(d) \cup {d} : ~ExcludedDir(a)

\* The directory and every directory above it can be read.
Listable(d) == \A a \in Ancestors(d) \cup {d} : Readable(a)

ExpectedDirLine(d) == Spaces(2 * Depth(d)) \o <<ShownName(d), "/">>
ExpectedFileLine(e) == Spaces(2 * (Depth(Parent(e)) + 1)) \o <<Name(e)>>

HasOneDirLine(d) ==
    /\ Cardinality(LinesFor(d)) = 1
    /\ \A k \in LinesFor(d) : origin[k].dir /\ out[k] = ExpectedDirLine(d)

Finished == pc = "done"

----------------------------------------------------------------------------
\* C1: an excluded directory D (other than the traversal root) has no line in
\* the output, nothing beneath D has one, D is gone from dirs once line 7 has
\* run, and D is never pending in the walk nor visited.
C1_ExcludedNeverListed ==
    \A d \in AllEntries : ExcludedDir(d) =>
        /\ \A k \in RunLines : ~Within(origin[k].node, d)
        /\ \A n \in StackNodes \cup Visited \cup Denied : ~Within(n, d)
        /\ (pc = "files" /\ Lookup(root) = Parent(d)) =>
               \A k \in DOMAIN dirs : dirs[k] # Name(d)

\* A finished run of a tree with an excluded directory in a visited directory
\* and an entry two levels beneath it.
C1_Witness ==
    /\ Finished
    /\ \E d \in AllEntries, e \in AllEntries :
        /\ ExcludedDir(d)
        /\ Parent(d) \in Visited
        /\ d \in Ancestors(e)
        /\ Parent(e) # d

C3_FilesUnderParent ==
    Finished => \A e \in AllEntries : (IsFileEntry(e) /\ Parent(e) \in Visited) =>
        /\ Cardinality(LinesFor(e)) = 1
        /\ \A k \in LinesFor(e) :
            /\ ~origin[k].dir
            /\ out[k] = ExpectedFileLine(e)
            /\ \E j \in DirLinesFor(Parent(e)) :
                /\ j < k
                /\ \A m \in (j + 1)..k : ~origin[m].dir

\* A finished run that listed a file three levels below the root.
C3_Witness ==
    /\ Finished
    /\ \E e \in PlainFiles : Depth(e) = 3 /\ LinesFor(e) # {}

\* C4 as stated: run in a (readable) root with no subdirectories and no files
\* at invocation, the finished output is the single line "./".
C4_EmptyRootOneLine ==
    (Finished /\ fresh /\ Nodes = {Root} /\ Readable(Root)) => out = << <<Dot, "/">> >>

\* C5: after the second of two runs in a row the output is what it was after
\* the first.
C5_SecondRunSameOutput ==
    (Finished /\ run = "second") => out = prev

\* A finished second run, the output file not existing before the first, with
\* at least three lines.
C5_Witness ==
    /\ Finished
    /\ run = "second"
    /\ fresh
    /\ Len(out) >= 3

\* The walk reached a subdirectory whose entries it could not read.
SubdirDenied == \E k \in DOMAIN log : ~log[k].ok /\ log[k].path # <<Dot>>

C7_State ==
    /\ opens <= 1
    /\ closes <= opens
    /\ pc = "start" <=> opens = 0
    /\ handle = "open" <=> (pc \in {"walk", "body", "files"} /\ closes = 0)
    /\ handle = "closed" <=> closes = 1
    /\ log # <<>> => (opens = 1 /\ handle # "none")
    /\ pc \in {"done", "failed"} =>
          /\ opens = 1
          /\ handle \in {"none", "closed"}
          /\ handle = "none" <=> ~canOpen

C7_Step ==
    /\ out' # out => (handle' = "open" /\ closes' = 0)
    /\ handle = "closed" => (handle' = "closed" /\ out' = out /\ log' = log)

\* C7: open is called once per run, before any directory is visited; the file
\* object it returns is closed once, and is closed when the run ends, normally
\* or with an error; nothing is written or visited after the close.
C7_HandleScoped == [](C7_State) /\ [][C7_Step]_vars

\* A run that ended with a write error after at least two lines, the file closed.
C7_Witness ==
    /\ pc = "failed"
    /\ opens = 1
    /\ closes = 1
    /\ handle = "closed"
    /\ Len(out) >= 2

\* C8: the output is in top-down order.  Before a line of an entry comes the
\* line of every directory above it; a file's line follows its directory's line
\* with only lines of files in between; and a path is pending in the walk only
\* after its parent's dirs was filtered, so no pending path names an excluded
\* directory.
C8_TopDownOrder ==
    /\ \A k \in RunLines :
        /\ \A a \in Ancestors(origin[k].node) : \E j \in DirLinesFor(a) : j < k
        /\ ~origin[k].dir =>
              \E j \in DirLinesFor(Parent(origin[k].node)) :
                  j < k /\ \A m \in (j + 1)..k : ~origin[m].dir
    /\ \A k \in DOMAIN stack : stack[k] # <<Dot>> =>
        /\ Basename(stack[k]) \notin Excluded
        /\ Parent(Lookup(stack[k])) \in Visited
        /\ DirLinesFor(Parent(Lookup(stack[k]))) # {}
    /\ pc = "files" => \A k \in DOMAIN dirs : dirs[k] \notin Excluded

\* A finished run in which a directory below the root had a file and a
\* subdirectory, both listed, next to an excluded directory.
C8_Witness ==
    /\ Finished
    /\ \E d \in RealDirs, e \in PlainFiles, c \in RealDirs :
        /\ d # Root
        /\ Parent(e) = d
        /\ Parent(c) = d
        /\ LinesFor(e) # {}
        /\ LinesFor(c) # {}

\* Directories the walk has not taken yet.
Untaken == Cardinality({i \in Nodes : fs[i].kind = "dir"}) - Len(log)

\* Steps left within the directory at hand.
WithinDir ==
    CASE pc = "start" -> 2
      [] pc = "walk"  -> 1
      [] pc = "body"  -> 3 + Len(files)
      [] pc = "files" -> 2 + Len(files)
      [] OTHER        -> 0

\* A measure of the work left: every step of a run lowers it.
Rank == (MaxNodes + 5) * Untaken + WithinDir

C9_State ==
    /\ LET taken == [k \in DOMAIN log |-> Lookup(log[k].path)]
       IN  /\ \A k \in DOMAIN log, m \in DOMAIN log : taken[k] = taken[m] => k = m
           /\ \A k \in DOMAIN log : Kind(taken[k]) = "dir"
    /\ \A k \in DOMAIN stack : ~IsLink(stack[k])
    /\ \A k \in RunLines : Kind(origin[k].node) # "link"
    /\ Untaken >= 0

C9_Step == Rank' < Rank

\* C9: the walk never takes a symbolic link: every path it takes is a real
\* directory, taken once, and a link has neither a directory line nor a file
\* line.  The run terminates: the work left, a natural number, gets smaller
\* with every step.
C9_LinksNotFollowed == [](C9_State) /\ [][C9_Step]_vars

\* A finished run of a tree where a visited directory below the root holds a
\* link to an ancestor.
C9_Witness ==
    /\ Finished
    /\ \E l \in Links : Depth(l) >= 2 /\ Parent(l) \in Visited

====
